---- MODULE Spec2Model ----
(***************************************************************************)
(* A model of jcvi's assembly/patch.py: the breakpoint detector            *)
(* (check_markers, mapbreaks), the gap refinement (refine), the interval   *)
(* merge and flank expansion (merge_ranges, prepare) and the certificate   *)
(* builder (certificate).  The program is a command-line dispatcher: one   *)
(* run executes one subcommand, so each subcommand has its own             *)
(* specification over the shared variables; the variables of the other     *)
(* subcommands stay at their idle value.                                   *)
(***************************************************************************)
EXTENDS Integers, Sequences, FiniteSets, TLC

VARIABLES
    pc,            \* position of the running subcommand
    \* check_markers called on its own
    cm_a, cm_b, cm_maxdiff, cm_ret,
    \* mapbreaks
    mstmap, mb_diff, mb_data, mb_i, good, nsingletons, mb_j, mb_out,
    \* merge_ranges called on its own
    mr_beds, mr_ret, mr_log,
    \* prepare
    bed, sizes, uniqbed, pr_k, bed_fw, tpf_fw, pr_sh,
    \* refine
    rf_in, rf_data, rf_k, nogapsfw, largestgapsfw, closestgaps, refined,
    rf_removed,
    \* certificate
    tpf, certificatefile, ct_data, fw, ct_i, ct_tag, bphase, ct_overlaps

cmVars == <<cm_a, cm_b, cm_maxdiff, cm_ret>>
mbVars == <<mstmap, mb_diff, mb_data, mb_i, good, nsingletons, mb_j, mb_out>>
mrVars == <<mr_beds, mr_ret, mr_log>>
prVars == <<bed, sizes, uniqbed, pr_k, bed_fw, tpf_fw, pr_sh>>
rfVars == <<rf_in, rf_data, rf_k, nogapsfw, largestgapsfw, closestgaps,
           refined, rf_removed>>
ctVars == <<tpf, certificatefile, ct_data, fw, ct_i, ct_tag, bphase,
           ct_overlaps>>
vars == <<pc, cmVars, mbVars, mrVars, prVars, rfVars, ctVars>>

\* Python's None
None == "None"

(***************************************************************************)
(* Bounds of the model.                                                    *)
(***************************************************************************)
\* number of genotype columns of a marker row given to check_markers
GenoLen == 3
\* largest number of marker rows in the mstmap input of mapbreaks
MaxMarkers == 4
\* largest number of BED records in a group given to merge_ranges
MaxGroup == 3
\* largest number of records in the alignment BED given to prepare
MaxBeds == 3
\* largest number of breakpoint regions in the input of refine
MaxRegions == 2
\* largest number of gaps overlapping one breakpoint region
MaxHits == 2
\* largest number of lines of the tiling path given to certificate
MaxTpf == 3

(***************************************************************************)
(* Generic helpers (Python builtins).                                      *)
(***************************************************************************)
Min2(x, y) == IF x <= y THEN x ELSE y
Max2(x, y) == IF x >= y THEN x ELSE y

\* all sequences over S of length 0..n
SeqsUpTo(S, n) == UNION {[1..k -> S] : k \in 0..n}

\* min(...) and max(...) over a non-empty collection of integers
SetMin(S) == CHOOSE x \in S : \A y \in S : x <= y
SetMax(S) == CHOOSE x \in S : \A y \in S : x >= y

\* itertools.groupby: the last index of the run of equal keys that starts at k
\* (keys is the sequence of the keys of the items)
RunEnd(keys, k) ==
    CHOOSE j \in k..Len(keys) :
        /\ \A m \in k..j : keys[m] = keys[k]
        /\ (j = Len(keys) \/ keys[j + 1] # keys[k])

(***************************************************************************)
(* check_markers                                                           *)
(***************************************************************************)
OK == 0
BREAK == 1
END == 2

\* the genotype calls; "-" is the missing call
Calls == {"A", "B", "-"}
Scaffolds == {"scf1", "scf2"}

\* --diff values, as exact fractions <<numerator, denominator>>.  1/10 is the
\* option's default; the others are binary fractions, for which the float
\* product len(ageno) * maxdiff is exact.  For 1/10 and the row lengths of
\* this model the float product compares with an integer as the fraction does.
MaxDiffs == {<<0, 1>>, <<1, 10>>, <<1, 4>>, <<1, 2>>, <<1, 1>>}

\* jcvi.algorithms.matrix.hamming_distance(a, b, ignore): the number of
\* positions of zip(a, b) where the two differ, skipping every position where
\* either is the ignored value.
RECURSIVE hamming_scan(_, _, _, _)
hamming_scan(x, y, ignore, k) ==
    IF k > Min2(Len(x), Len(y)) THEN 0
    ELSE (IF ignore \in {x[k], y[k]} THEN 0
          ELSE IF x[k] # y[k] THEN 1 ELSE 0)
         + hamming_scan(x, y, ignore, k + 1)

hamming_distance(x, y, ignore) == hamming_scan(x, y, ignore, 1)

\* aid.split("."): a marker id "scaffold.position" is kept as the pair
\* <<scaffold, position>>
SplitId(id) == <<id[1], id[2]>>

\* check_markers with the threshold comparison reversed in strictness
check_markers_strict(a, b, maxdiff) ==
    LET ageno == Tail(a)
        bgeno == Tail(b)
        ascf == SplitId(Head(a))[1]
        apos == SplitId(Head(a))[2]
        bscf == SplitId(Head(b))[1]
        bpos == SplitId(Head(b))[2]
        diff == hamming_distance(ageno, bgeno, "-")
    IN  IF ascf # bscf THEN <<END, None>>
        ELSE IF diff * maxdiff[2] < Len(ageno) * maxdiff[1] THEN <<OK, None>>
        ELSE <<BREAK, <<ascf, apos, bpos>>>>

\* a row is <<id, call, call, ...>>; the result is <<label, rr>>.
\* diff <= len(ageno) * maxdiff, with maxdiff = num/den, is
\* diff * den <= len(ageno) * num.
check_markers(a, b, maxdiff) ==
    LET ageno == Tail(a)
        bgeno == Tail(b)
        ascf == SplitId(Head(a))[1]
        apos == SplitId(Head(a))[2]
        bscf == SplitId(Head(b))[1]
        bpos == SplitId(Head(b))[2]
        diff == hamming_distance(ageno, bgeno, "-")
        max_allowed_num == Len(ageno) * maxdiff[1]
    IN  IF ascf # bscf THEN <<END, None>>
        ELSE IF diff * maxdiff[2] <= max_allowed_num THEN <<OK, None>>
        ELSE <<BREAK, <<ascf, apos, bpos>>>>

\* marker rows with GenoLen genotype columns and the given position
MarkerRows(pos) ==
    {<<<<s, pos>>>> \o g : s \in Scaffolds, g \in [1..GenoLen -> Calls]}

cmIdle == cm_a = <<>> /\ cm_b = <<>> /\ cm_maxdiff = <<>> /\ cm_ret = <<>>

\* the call check_markers(a, b, maxdiff)
CallCheckMarkers ==
    /\ pc = "check_markers"
    /\ cm_ret' = check_markers(cm_a, cm_b, cm_maxdiff)
    /\ pc' = "returned"
    /\ UNCHANGED <<cm_a, cm_b, cm_maxdiff, mbVars, mrVars, prVars, rfVars, ctVars>>

(***************************************************************************)
(* mapbreaks                                                               *)
(***************************************************************************)
\* genotype rows of the mstmap input of mapbreaks (two individuals)
MapGenotypes == {<<"A", "A">>, <<"A", "B">>, <<"B", "B">>, <<"A", "-">>}
MapDiffs == {<<1, 10>>, <<1, 2>>}

\* the rows after the locus_name header; the k-th marker has position k
MstmapFiles ==
    {f \in SeqsUpTo(Scaffolds \X MapGenotypes, MaxMarkers) : TRUE}

RowOf(f, k) == <<<<f[k][1], k>>>> \o f[k][2]

mbIdle ==
    /\ mstmap = <<>> /\ mb_diff = <<>> /\ mb_data = <<>> /\ mb_i = 0
    /\ good = <<>> /\ nsingletons = 0 /\ mb_j = 0 /\ mb_out = <<>>

\* jcvi.utils.iter.pairwise: the consecutive pairs of a sequence
pairwise(s) == [k \in 1..(Len(s) - 1) |-> <<s[k], s[k + 1]>>]

\* lines 74-81: skip the header, split every following row
MapbreaksRead ==
    /\ pc = "mb_read"
    /\ mb_data' = [k \in 1..Len(mstmap) |-> RowOf(mstmap, k)]
    /\ mb_i' = 1
    /\ pc' = "mb_filter"
    /\ UNCHANGED <<mstmap, mb_diff, good, nsingletons, mb_j, mb_out, cmVars, mrVars, prVars, rfVars, ctVars>>

\* the filter loop without the continue of line 93: the singleton is counted
\* and appended all the same
MapbreaksFilterStep_nocontinue ==
    /\ pc = "mb_filter"
    /\ mb_i < Len(mb_data) - 1
    /\ LET a == mb_data[mb_i + 1]
           left_label == check_markers(mb_data[mb_i], a, mb_diff)[1]
           right_label == check_markers(a, mb_data[mb_i + 2], mb_diff)[1]
       IN  /\ nsingletons' = IF left_label = BREAK /\ right_label = BREAK
                             THEN nsingletons + 1 ELSE nsingletons
           /\ good' = Append(good, a)
    /\ mb_i' = mb_i + 1
    /\ UNCHANGED <<pc, mstmap, mb_diff, mb_data, mb_j, mb_out, cmVars, mrVars, prVars, rfVars, ctVars>>

\* lines 86-95, one iteration of for i in xrange(1, len(data) - 1).
\* Python indexes from 0: data[i] is mb_data[mb_i + 1].
MapbreaksFilterStep ==
    /\ pc = "mb_filter"
    /\ mb_i < Len(mb_data) - 1
    /\ LET a == mb_data[mb_i + 1]
           left_label == check_markers(mb_data[mb_i], a, mb_diff)[1]
           right_label == check_markers(a, mb_data[mb_i + 2], mb_diff)[1]
       IN  IF left_label = BREAK /\ right_label = BREAK
           THEN /\ nsingletons' = nsingletons + 1
                /\ good' = good
           ELSE /\ good' = Append(good, a)
                /\ nsingletons' = nsingletons
    /\ mb_i' = mb_i + 1
    /\ UNCHANGED <<pc, mstmap, mb_diff, mb_data, mb_j, mb_out, cmVars, mrVars, prVars, rfVars, ctVars>>

\* line 97: the loop is exhausted
MapbreaksFilterDone ==
    /\ pc = "mb_filter"
    /\ ~(mb_i < Len(mb_data) - 1)
    /\ mb_j' = 1
    /\ pc' = "mb_report"
    /\ UNCHANGED <<mstmap, mb_diff, mb_data, mb_i, good, nsingletons, mb_out, cmVars, mrVars, prVars, rfVars, ctVars>>

\* lines 99-102, one iteration of for a, b in pairwise(good)
MapbreaksReportStep ==
    /\ pc = "mb_report"
    /\ mb_j <= Len(pairwise(good))
    /\ LET p == pairwise(good)[mb_j]
           r == check_markers(p[1], p[2], mb_diff)
       IN  mb_out' = IF r[1] = BREAK THEN Append(mb_out, r[2]) ELSE mb_out
    /\ mb_j' = mb_j + 1
    /\ UNCHANGED <<pc, mstmap, mb_diff, mb_data, mb_i, good, nsingletons, cmVars, mrVars, prVars, rfVars, ctVars>>

MapbreaksReportDone ==
    /\ pc = "mb_report"
    /\ ~(mb_j <= Len(pairwise(good)))
    /\ pc' = "done"
    /\ UNCHANGED <<mbVars, cmVars, mrVars, prVars, rfVars, ctVars>>

(***************************************************************************)
(* merge_ranges                                                            *)
(***************************************************************************)
\* sequence names: <<prefix, number>>, so that startswith(prefix) is a test
\* of the first part
AccnSeqids == {<<"Scaffold", 1>>, <<"contig", 1>>}
\* the strand column of a BED line: '+', '-', '.' (unstranded) or absent (None)
Strands == {"+", "-", ".", None}
\* the (start, end) of the range an accn names, start <= end
AccnRanges == {<<5000, 20000>>, <<12000, 30000>>, <<15000, 45000>>}
\* the (seqid, start, end) of a BED line in the optical map
Loci == {<<"chr1", 1, 100>>, <<"chr1", 101, 200>>}

\* BED lines; accn is the text "seqid:start-end", kept as its three parts
BedLines(loci, ranges, strands) ==
    {[seqid |-> l[1], start |-> l[2], end |-> l[3],
      accn |-> <<c, r[1], r[2]>>, strand |-> t] :
        l \in loci, c \in AccnSeqids, r \in ranges, t \in strands}

\* jcvi.utils.range.range_parse("seqid:start-end")
range_parse(x) == [seqid |-> x[1], start |-> x[2], end |-> x[3]]

\* sum(1 for x in beds if x.strand == '-')
RECURSIVE CountNeg(_)
CountNeg(beds) ==
    IF beds = <<>> THEN 0
    ELSE (IF Head(beds).strand = "-" THEN 1 ELSE 0) + CountNeg(Tail(beds))

\* a majority vote whose ties go to the negative strand
MajorityStrand_tieneg(beds) ==
    LET neg_strands == CountNeg(beds)
        pos_strands == Len(beds) - neg_strands
    IN  IF neg_strands >= pos_strands THEN "-" ELSE "+"

\* lines 262-264
MajorityStrand(beds) ==
    LET neg_strands == CountNeg(beds)
        pos_strands == Len(beds) - neg_strands
    IN  IF neg_strands > pos_strands THEN "-" ELSE "+"

\* lines 250-253: the set of seqids of the parsed accns
ParsedSeqids(beds) == {range_parse(beds[k].accn).seqid : k \in 1..Len(beds)}

\* merge_ranges taking the bounds of the first record instead of min and max
merge_ranges_first(beds) ==
    LET mr == [k \in 1..Len(beds) |-> range_parse(beds[k].accn)]
        mc == ParsedSeqids(beds)
    IN  IF Cardinality(mc) # 1 THEN None
        ELSE <<CHOOSE c \in mc : TRUE, mr[1].start, mr[1].end,
               MajorityStrand(beds)>>

\* merge_ranges that only rejects a group without any seqid
merge_ranges_nocheck(beds) ==
    LET mr == [k \in 1..Len(beds) |-> range_parse(beds[k].accn)]
        mc == ParsedSeqids(beds)
    IN  IF Cardinality(mc) = 0 THEN None
        ELSE <<CHOOSE c \in mc : TRUE,
               SetMin({mr[k].start : k \in 1..Len(mr)}),
               SetMax({mr[k].end : k \in 1..Len(mr)}),
               MajorityStrand(beds)>>

\* the return value: None, or <<mc, ms, me, strand>>
merge_ranges(beds) ==
    LET mr == [k \in 1..Len(beds) |-> range_parse(beds[k].accn)]
        mc == ParsedSeqids(beds)
    IN  IF Cardinality(mc) # 1 THEN None
        ELSE <<CHOOSE c \in mc : TRUE,
               SetMin({mr[k].start : k \in 1..Len(mr)}),
               SetMax({mr[k].end : k \in 1..Len(mr)}),
               MajorityStrand(beds)>>

\* what logging.error receives during merge_ranges(beds)
merge_ranges_log(beds) ==
    IF Cardinality(ParsedSeqids(beds)) # 1
    THEN <<"Multiple seqid found in pocket. Aborted.">>
    ELSE <<>>

mrIdle == mr_beds = <<>> /\ mr_ret = <<>> /\ mr_log = <<>>

\* the call merge_ranges(beds)
CallMergeRanges ==
    /\ pc = "merge_ranges"
    /\ mr_ret' = merge_ranges(mr_beds)
    /\ mr_log' = mr_log \o merge_ranges_log(mr_beds)
    /\ pc' = "returned"
    /\ UNCHANGED <<mr_beds, cmVars, mbVars, prVars, rfVars, ctVars>>

(***************************************************************************)
(* prepare                                                                 *)
(***************************************************************************)
Flank == 10000
\* --backbone
bb == "Scaffold"
\* bedfile.split(".")[0]
pf == "om"

PrepareRanges == {<<5000, 20000>>, <<15000, 45000>>}
\* the strands of the alignment BED: stranded and unstranded lines (a line
\* without strand column is counted by merge_ranges as an unstranded one is)
PrepareStrands == {"+", "-", "."}
\* Sizes(fastafile).mapping
SizeMaps ==
    {[c \in AccnSeqids |-> IF c[1] = "Scaffold" THEN 50000 ELSE 45000],
     [c \in AccnSeqids |-> IF c[1] = "Scaffold" THEN 100000 ELSE 60000]}

\* the alignment BED, in the order of the optical map
BedFiles ==
    {f \in SeqsUpTo(BedLines(Loci, PrepareRanges, PrepareStrands), MaxBeds) :
        \A k \in 1..(Len(f) - 1) : f[k].start <= f[k + 1].start}

\* is_bb = lambda x: x.accn.startswith(bb)
is_bb(x) == x.accn[1][1] = bb

\* key = lambda x: (x.seqid, x.start, x.end)
UniqKey(x) == <<x.seqid, x.start, x.end>>
\* key = lambda x: (is_bb, range_parse(x.accn).seqid); is_bb is the function
\* itself, the same object for every record
CondenseKey(x) == <<"is_bb", range_parse(x.accn).seqid>>

\* lines 296-303: keep only the backbone records of a redundant interval
RECURSIVE Uniq(_, _)
Uniq(s, k) ==
    IF k > Len(s) THEN <<>>
    ELSE LET j == RunEnd([m \in 1..Len(s) |-> UniqKey(s[m])], k)
             sb == SubSeq(s, k, j)
             backbone == SelectSeq(sb, is_bb)
             others == SelectSeq(sb, LAMBDA x : ~is_bb(x))
         IN  (IF backbone # <<>> /\ others # <<>> THEN backbone ELSE sb)
             \o Uniq(s, j + 1)

prIdle ==
    /\ bed = <<>> /\ sizes = <<>> /\ uniqbed = <<>> /\ pr_k = 0
    /\ bed_fw = <<>> /\ tpf_fw = <<>> /\ pr_sh = <<>>

\* lines 292-318
PrepareUniq ==
    /\ pc = "pr_uniq"
    /\ uniqbed' = Uniq(bed, 1)
    /\ tpf_fw' = <<<<"telomere", pf, "na">>>>
    /\ pr_k' = 1
    /\ pc' = "pr_condense"
    /\ UNCHANGED <<bed, sizes, bed_fw, pr_sh, cmVars, mbVars, mrVars, rfVars, ctVars>>

\* a flank expansion that forgets to clip the end (line 325)
FlankEnd_unclipped(end, size) == end + Flank

\* lines 324-325
FlankStart(start) == Max2(start - Flank, 0)
FlankEnd(end, size) == Min2(end + Flank, size)

\* lines 320-329, one iteration of for k, sb in groupby(bed, key=key)
PrepareGroup ==
    /\ pc = "pr_condense"
    /\ pr_k <= Len(uniqbed)
    /\ LET j == RunEnd([m \in 1..Len(uniqbed) |-> CondenseKey(uniqbed[m])], pr_k)
           sb == SubSeq(uniqbed, pr_k, j)
           m == merge_ranges(sb)
       IN  IF m = None
           THEN \* unpacking None raises TypeError
                /\ pc' = "crashed"
                /\ UNCHANGED <<bed_fw, tpf_fw, pr_k>>
           ELSE LET chr == m[1]
                    size == sizes[chr]
                    start == FlankStart(m[2])
                    end == FlankEnd(m[3], size)
                IN  /\ bed_fw' = Append(bed_fw, <<chr, start, end>>)
                    /\ tpf_fw' = Append(tpf_fw, <<<<chr, start, end>>, pf, m[4]>>)
                    /\ pr_k' = j + 1
                    /\ pc' = pc
    /\ UNCHANGED <<bed, sizes, uniqbed, pr_sh, cmVars, mbVars, mrVars, rfVars, ctVars>>

\* lines 331-337
PrepareFinish ==
    /\ pc = "pr_condense"
    /\ pr_k > Len(uniqbed)
    /\ pr_sh' = Append(pr_sh, "fastaFromBed")
    /\ pc' = "done"
    /\ UNCHANGED <<bed, sizes, uniqbed, pr_k, bed_fw, tpf_fw, cmVars, mbVars, mrVars, rfVars, ctVars>>

(***************************************************************************)
(* refine                                                                  *)
(***************************************************************************)
\* A line of the intersection file is a list of column texts, x.split(); a
\* text is the sequence of its characters.  Python 2 orders texts by
\* character code and lists column by column.
CharCode ==
    [c \in {"-", ".", "0", "1", "2", "3", "4", "5", "6", "7", "8", "9", "c"} |->
        CASE c = "-" -> 45 [] c = "." -> 46 [] c = "0" -> 48 [] c = "1" -> 49
          [] c = "2" -> 50 [] c = "3" -> 51 [] c = "4" -> 52 [] c = "5" -> 53
          [] c = "6" -> 54 [] c = "7" -> 55 [] c = "8" -> 56 [] c = "9" -> 57
          [] c = "c" -> 99]

\* s < t for two texts
RECURSIVE StrLess(_, _)
StrLess(s, t) ==
    IF t = <<>> THEN FALSE
    ELSE IF s = <<>> THEN TRUE
    ELSE IF CharCode[Head(s)] # CharCode[Head(t)]
         THEN CharCode[Head(s)] < CharCode[Head(t)]
    ELSE StrLess(Tail(s), Tail(t))

\* x < y for two lists of texts
RECURSIVE ListLess(_, _)
ListLess(x, y) ==
    IF y = <<>> THEN FALSE
    ELSE IF x = <<>> THEN TRUE
    ELSE IF Head(x) # Head(y) THEN StrLess(Head(x), Head(y))
    ELSE ListLess(Tail(x), Tail(y))

\* p < q for two tuples (int, list)
TupleLess(p, q) == p[1] < q[1] \/ (p[1] = q[1] /\ ListLess(p[2], q[2]))

\* int(text) of an optionally signed decimal numeral
RECURSIVE DigitsValue(_, _)
DigitsValue(s, acc) ==
    IF s = <<>> THEN acc
    ELSE DigitsValue(Tail(s), 10 * acc + (CharCode[Head(s)] - 48))

int(s) == IF Head(s) = "-" THEN 0 - DigitsValue(Tail(s), 0)
          ELSE DigitsValue(s, 0)

\* max of tuples under a comparison that ignores the list: the first of the
\* rows of greatest size
RECURSIVE max_scan_sizeonly(_, _, _)
max_scan_sizeonly(g, k, best) ==
    IF k > Len(g) THEN best
    ELSE max_scan_sizeonly(g, k + 1, IF best[1] < g[k][1] THEN g[k] ELSE best)

\* max(gaps): a scan that replaces the best item only by a greater one
RECURSIVE max_scan(_, _, _)
max_scan(g, k, best) ==
    IF k > Len(g) THEN best
    ELSE max_scan(g, k + 1, IF TupleLess(best, g[k]) THEN g[k] ELSE best)

\* max over the size only
max_sizeonly(g) == max_scan_sizeonly(g, 2, g[1])

max(g) == max_scan(g, 2, g[1])

\* the breakpoint regions (chr, start, end) of breakpoints.bed, in order
RegionList ==
    << <<<<"c">>, <<"1">>, <<"5">>>>,
       <<<<"c">>, <<"6">>, <<"9">>>>,
       <<<<"c">>, <<"1", "0">>, <<"2", "0">>>> >>

\* the columns intersectBed -wao appends for an overlapping gap: the gap's
\* chr, start, end and the number of overlapping bases
GapHits ==
    { <<<<"c">>, <<"9">>, <<"1", "2">>, <<"2">>>>,
      <<<<"c">>, <<"1", "0">>, <<"1", "2">>, <<"2">>>>,
      <<<<"c">>, <<"8">>, <<"9">>, <<"1">>>>,
      <<<<"c">>, <<"1", "0">>, <<"1", "2">>, <<"1">>>> }
\* and for a region that overlaps no gap
NoHit == <<<<".">>, <<"-", "1">>, <<"-", "1">>, <<"0">>>>

\* the gap a hit names
GapOf(h) == SubSeq(h, 1, 3)

\* the hits of one region: distinct gaps, in the order of gaps.bed
HitLists ==
    {h \in SeqsUpTo(GapHits, MaxHits) :
        \A m, n \in 1..Len(h) : m # n => GapOf(h[m]) # GapOf(h[n])}

\* the input: breakpoint regions in file order, each with its hits
RefineInputs ==
    {r \in SeqsUpTo((1..Len(RegionList)) \X HitLists, MaxRegions) :
        \A k \in 1..(Len(r) - 1) : r[k][1] < r[k + 1][1]}

\* the lines intersectBed -wao writes for one region
RECURSIVE IntersectLines(_, _)
IntersectLines(region, hits) ==
    IF hits = <<>> THEN <<>>
    ELSE <<region \o Head(hits)>> \o IntersectLines(region, Tail(hits))

RECURSIVE IntersectBed(_)
IntersectBed(r) ==
    IF r = <<>> THEN <<>>
    ELSE LET region == RegionList[Head(r)[1]]
             hits == Head(r)[2]
         IN  (IF hits = <<>> THEN <<region \o NoHit>>
              ELSE IntersectLines(region, hits))
             \o IntersectBed(Tail(r))

\* what closestBed ... | cut -f4-7 may answer for a region
NearestGaps == {GapOf(h) : h \in GapHits}

rfIdle ==
    /\ rf_in = <<>> /\ rf_data = <<>> /\ rf_k = 0 /\ nogapsfw = <<>>
    /\ largestgapsfw = <<>> /\ closestgaps = <<>> /\ refined = <<>>
    /\ rf_removed = {}

\* lines 120-131
RefineIntersect ==
    /\ pc = "rf_intersect"
    /\ rf_data' = IntersectBed(rf_in)
    /\ rf_k' = 1
    /\ pc' = "rf_groups"
    /\ UNCHANGED <<rf_in, nogapsfw, largestgapsfw, closestgaps, refined,
                   rf_removed, cmVars, mbVars, mrVars, prVars, ctVars>>

\* key=lambda x: x[:3]
RegionKey(x) == SubSeq(x, 1, 3)

\* lines 132-142, one iteration of for b, gaps in groupby(data, ...)
RefineGroup ==
    /\ pc = "rf_groups"
    /\ rf_k <= Len(rf_data)
    /\ LET j == RunEnd([m \in 1..Len(rf_data) |-> RegionKey(rf_data[m])], rf_k)
           b == RegionKey(rf_data[rf_k])
           gaps == SubSeq(rf_data, rf_k, j)
       IN  /\ rf_k' = j + 1
           /\ IF Len(gaps) = 1 /\ gaps[1][4] = <<".">>
              THEN IF gaps[1][5] = <<"-", "1">>
                   THEN /\ nogapsfw' = Append(nogapsfw, b)
                        /\ UNCHANGED <<largestgapsfw, pc>>
                   ELSE \* assert gap[4] == "-1"
                        /\ pc' = "crashed"
                        /\ UNCHANGED <<nogapsfw, largestgapsfw>>
              ELSE LET sized == [k \in 1..Len(gaps) |->
                                    <<int(gaps[k][Len(gaps[k])]), gaps[k]>>]
                       maxgap == max(sized)[2]
                   IN  /\ largestgapsfw' =
                              Append(largestgapsfw, SubSeq(maxgap, 4, Len(maxgap)))
                       /\ UNCHANGED <<nogapsfw, pc>>
    /\ UNCHANGED <<rf_in, rf_data, closestgaps, refined, rf_removed,
                   cmVars, mbVars, mrVars, prVars, ctVars>>

\* lines 144-151: closestBed names a gap for every region of the no-gap file
RefineClosest ==
    /\ pc = "rf_groups"
    /\ rf_k > Len(rf_data)
    /\ \E c \in [1..Len(nogapsfw) -> NearestGaps] : closestgaps' = c
    /\ pc' = "rf_merge"
    /\ UNCHANGED <<rf_in, rf_data, rf_k, nogapsfw, largestgapsfw, refined,
                   rf_removed, cmVars, mbVars, mrVars, prVars, ctVars>>

\* lines 153-158: merge the two files, remove the intermediate ones
RefineMerge ==
    /\ pc = "rf_merge"
    /\ refined' = largestgapsfw \o closestgaps
    /\ rf_removed' = {"nogapsbed", "largestgapsbed", "closestgapsbed"}
    /\ pc' = "done"
    /\ UNCHANGED <<rf_in, rf_data, rf_k, nogapsfw, largestgapsfw, closestgaps,
                   cmVars, mbVars, mrVars, prVars, ctVars>>

(***************************************************************************)
(* certificate                                                             *)
(***************************************************************************)
\* clone ids: <<prefix, number>>
CloneIds == {<<"Scaffold", 1>>, <<"AC", 1>>}
Objects == <<"chr1", "chr2">>

\* a line of the tiling path: a clone or a gap
TpfClone(o, id) ==
    [object |-> o, component_id |-> id, is_gap |-> FALSE, gap_type |-> "na"]
TpfGap(o, t) ==
    [object |-> o, component_id |-> <<"GAP", 0>>, is_gap |-> TRUE, gap_type |-> t]
\* no neighbour (Python's None, as a value comparable with a line)
NoClone == TpfClone("None", <<"None", 0>>)

TpfLines(o) ==
    {TpfClone(Objects[o], id) : id \in CloneIds}
      \cup {TpfGap(Objects[o], t) : t \in {"clone", "fragment"}}

\* tiling paths: the lines of one object are contiguous
TpfFiles ==
    UNION {
        {[k \in 1..n |-> l[k]] :
            l \in {m \in [1..n -> UNION {TpfLines(o) : o \in 1..Len(Objects)}] :
                      \A k \in 1..(n - 1) :
                          m[k].object = m[k + 1].object
                            \/ (m[k].object = Objects[1] /\ m[k + 1].object = Objects[2])}}
        : n \in 0..MaxTpf}

\* TPFLine.isCloneGap: a gap between clones, not a fragment gap
isCloneGap(x) == x.is_gap /\ x.gap_type # "fragment"

\* TPF.getAdjacentClone: the nearest line of the same object, in the given
\* direction, that is a clone or a clone gap
RECURSIVE AdjacentScan(_, _, _, _)
AdjacentScan(t, i, ix, step) ==
    IF ix < 1 \/ ix > Len(t) THEN NoClone
    ELSE IF t[ix].object # t[i].object THEN NoClone
    ELSE IF t[ix].is_gap /\ ~isCloneGap(t[ix])
         THEN AdjacentScan(t, i, ix + step, step)
    ELSE t[ix]

\* TPF.getNorthSouthClone(i)
getNorthSouthClone(t, i) ==
    <<AdjacentScan(t, i, i - 1, 0 - 1), AdjacentScan(t, i, i + 1, 1)>>

\* the size of the sequence in fasta/<id>.fasta
FastaSize(id) == IF id[1] = "Scaffold" THEN 58443 ELSE 37835

\* lines 161-168: <<ph, fs>>
phase(aid, backbone) == <<IF aid[1] = backbone THEN 2 ELSE 1, FastaSize(aid)>>

\* str(x) of a phase
Str(n) == CASE n = 0 -> "0" [] n = 1 -> "1" [] n = 2 -> "2"

\* a local variable that has not been assigned
Unbound == "unbound"

Tags == <<"North", "South">>

\* the keys an existing certificate file may hold
CertKeys ==
    {<<"South", <<"Scaffold", 1>>, <<"AC", 1>>>>,
     <<"North", <<"AC", 1>>, <<"Scaffold", 1>>>>,
     <<"North", <<"Scaffold", 1>>, <<"Scaffold", 1>>>>}

\* the line an existing certificate file holds for a key
StoredLine(key) == <<"stored", key>>

\* check_certificate(certificatefile): the lines of the file by key
check_certificate(file) == [key \in file |-> StoredLine(key)]

ctIdle ==
    /\ tpf = <<>> /\ certificatefile = {} /\ ct_data = <<>> /\ fw = <<>>
    /\ ct_i = 0 /\ ct_tag = 0 /\ bphase = Unbound /\ ct_overlaps = <<>>

ctOthers == <<cmVars, mbVars, mrVars, prVars, rfVars>>

\* a start that opens the certificate file for writing before reading it
CertStart_truncatefirst ==
    /\ pc = "ct_start"
    /\ ct_data' = check_certificate({})
    /\ fw' = <<>>
    /\ ct_i' = 1
    /\ ct_tag' = 1
    /\ pc' = "ct_loop"
    /\ UNCHANGED <<tpf, certificatefile, bphase, ct_overlaps, ctOthers>>

\* lines 200-211: read the existing certificate, then open it for writing
CertStart ==
    /\ pc = "ct_start"
    /\ ct_data' = check_certificate(certificatefile)
    /\ fw' = <<>>
    /\ ct_i' = 1
    /\ ct_tag' = 1
    /\ pc' = "ct_loop"
    /\ UNCHANGED <<tpf, certificatefile, bphase, ct_overlaps, ctOthers>>

\* lines 213-214
CertSkipGap ==
    /\ pc = "ct_loop"
    /\ ct_i <= Len(tpf)
    /\ tpf[ct_i].is_gap
    /\ ct_i' = ct_i + 1
    /\ UNCHANGED <<pc, tpf, certificatefile, ct_data, fw, ct_tag, bphase,
                   ct_overlaps, ctOthers>>

\* the component and the neighbour of the direction being processed
CurA == tpf[ct_i]
CurP == getNorthSouthClone(tpf, ct_i)[ct_tag]
AtDirection == pc = "ct_loop" /\ ct_i <= Len(tpf) /\ ~tpf[ct_i].is_gap

\* the end of one iteration of for tag, p in (("North", north), ("South", south))
NextDirection ==
    /\ ct_tag' = IF ct_tag = 1 THEN 2 ELSE 1
    /\ ct_i' = IF ct_tag = 1 THEN ct_i ELSE ct_i + 1

\* lines 243-244
Line(tag, a, aphase, bph, aid, ov) == <<tag, a.object, Str(aphase), bph, aid, ov>>

\* lines 225-226, 243-245: no neighbour; bphase is not assigned on this path
CertTelomere ==
    /\ AtDirection
    /\ CurP = NoClone
    /\ LET aid == CurA.component_id
           ph == phase(aid, bb)
           ov == <<"telomere", ph[2]>>
       IN  IF bphase = Unbound
           THEN \* UnboundLocalError
                /\ pc' = "crashed"
                /\ UNCHANGED <<fw, ct_i, ct_tag>>
           ELSE /\ fw' = Append(fw, Line(Tags[ct_tag], CurA, ph[1], bphase, aid, ov))
                /\ NextDirection
                /\ pc' = pc
    /\ UNCHANGED <<tpf, certificatefile, ct_data, bphase, ct_overlaps, ctOthers>>

\* lines 227-229, 243-245: the neighbour is a gap
CertGapNeighbour ==
    /\ AtDirection
    /\ CurP # NoClone
    /\ isCloneGap(CurP)
    /\ LET aid == CurA.component_id
           ph == phase(aid, bb)
           ov == <<CurP.gap_type, ph[2]>>
       IN  /\ bphase' = "0"
           /\ fw' = Append(fw, Line(Tags[ct_tag], CurA, ph[1], "0", aid, ov))
    /\ NextDirection
    /\ UNCHANGED <<pc, tpf, certificatefile, ct_data, ct_overlaps, ctOthers>>

\* lines 231-236: the neighbour is a clone and the key is in the existing
\* certificate
CertReuse ==
    /\ AtDirection
    /\ CurP # NoClone
    /\ ~isCloneGap(CurP)
    /\ LET aid == CurA.component_id
           bid == CurP.component_id
           key == <<Tags[ct_tag], aid, bid>>
       IN  /\ key \in DOMAIN ct_data
           /\ bphase' = Str(phase(bid, bb)[1])
           /\ fw' = Append(fw, ct_data[key])
    /\ NextDirection
    /\ UNCHANGED <<pc, tpf, certificatefile, ct_data, ct_overlaps, ctOthers>>

\* lines 231-245: the neighbour is a clone and the key is new; overlap()
\* finds an overlap or none
CertOverlap ==
    /\ AtDirection
    /\ CurP # NoClone
    /\ ~isCloneGap(CurP)
    /\ LET aid == CurA.component_id
           bid == CurP.component_id
           key == <<Tags[ct_tag], aid, bid>>
           ph == phase(aid, bb)
           bph == Str(phase(bid, bb)[1])
       IN  /\ key \notin DOMAIN ct_data
           /\ bphase' = bph
           /\ ct_overlaps' = Append(ct_overlaps, key)
           /\ \E o \in {"overlap", "None"} :
                LET ov == IF o # "None" THEN <<"certificateline", aid, bid>>
                          ELSE <<bid, ph[2], "None">>
                IN  fw' = Append(fw, Line(Tags[ct_tag], CurA, ph[1], bph, aid, ov))
    /\ NextDirection
    /\ UNCHANGED <<pc, tpf, certificatefile, ct_data, ctOthers>>

\* the tiling path is exhausted
CertDone ==
    /\ pc = "ct_loop"
    /\ ct_i > Len(tpf)
    /\ pc' = "done"
    /\ UNCHANGED <<ctVars, ctOthers>>

(***************************************************************************)
(* Specifications                                                          *)
(***************************************************************************)
InitCheckMarkers ==
    /\ pc = "check_markers"
    /\ cm_a \in MarkerRows(1)
    /\ cm_b \in MarkerRows(2)
    /\ cm_maxdiff \in MaxDiffs
    /\ cm_ret = <<>>
    /\ mbIdle /\ mrIdle /\ prIdle /\ rfIdle /\ ctIdle

NextCheckMarkers == CallCheckMarkers

SpecCheckMarkers == InitCheckMarkers /\ [][NextCheckMarkers]_vars

InitMapbreaks ==
    /\ pc = "mb_read"
    /\ mstmap \in MstmapFiles
    /\ mb_diff \in MapDiffs
    /\ mb_data = <<>> /\ mb_i = 0 /\ good = <<>> /\ nsingletons = 0
    /\ mb_j = 0 /\ mb_out = <<>>
    /\ cmIdle /\ mrIdle /\ prIdle /\ rfIdle /\ ctIdle

NextMapbreaks ==
    \/ MapbreaksRead
    \/ MapbreaksFilterStep
    \/ MapbreaksFilterDone
    \/ MapbreaksReportStep
    \/ MapbreaksReportDone

SpecMapbreaks == InitMapbreaks /\ [][NextMapbreaks]_vars

InitMergeRanges ==
    /\ pc = "merge_ranges"
    /\ mr_beds \in SeqsUpTo(BedLines({<<"chr1", 1, 100>>}, AccnRanges, Strands), MaxGroup)
    /\ mr_ret = <<>> /\ mr_log = <<>>
    /\ cmIdle /\ mbIdle /\ prIdle /\ rfIdle /\ ctIdle

NextMergeRanges == CallMergeRanges

SpecMergeRanges == InitMergeRanges /\ [][NextMergeRanges]_vars

InitPrepare ==
    /\ pc = "pr_uniq"
    /\ bed \in BedFiles
    /\ sizes \in SizeMaps
    /\ uniqbed = <<>> /\ pr_k = 0 /\ bed_fw = <<>> /\ tpf_fw = <<>>
    /\ pr_sh = <<>>
    /\ cmIdle /\ mbIdle /\ mrIdle /\ rfIdle /\ ctIdle

NextPrepare ==
    \/ PrepareUniq
    \/ PrepareGroup
    \/ PrepareFinish

SpecPrepare == InitPrepare /\ [][NextPrepare]_vars

InitRefine ==
    /\ pc = "rf_intersect"
    /\ rf_in \in RefineInputs
    /\ rf_data = <<>> /\ rf_k = 0 /\ nogapsfw = <<>> /\ largestgapsfw = <<>>
    /\ closestgaps = <<>> /\ refined = <<>> /\ rf_removed = {}
    /\ cmIdle /\ mbIdle /\ mrIdle /\ prIdle /\ ctIdle

NextRefine ==
    \/ RefineIntersect
    \/ RefineGroup
    \/ RefineClosest
    \/ RefineMerge

SpecRefine == InitRefine /\ [][NextRefine]_vars

InitCertificate ==
    /\ pc = "ct_start"
    /\ tpf \in TpfFiles
    /\ certificatefile \in SUBSET CertKeys
    /\ ct_data = <<>> /\ fw = <<>> /\ ct_i = 0 /\ ct_tag = 0
    /\ bphase = Unbound /\ ct_overlaps = <<>>
    /\ cmIdle /\ mbIdle /\ mrIdle /\ prIdle /\ rfIdle

NextCertificate ==
    \/ CertStart
    \/ CertSkipGap
    \/ CertTelomere
    \/ CertGapNeighbour
    \/ CertReuse
    \/ CertOverlap
    \/ CertDone

SpecCertificate == InitCertificate /\ [][NextCertificate]_vars

(***************************************************************************)
(* Claims about check_markers (SpecCheckMarkers)                           *)
(***************************************************************************)
Range(s) == {s[k] : k \in 1..Len(s)}

\* positions at which the two calls of a and b differ and neither is missing
Mismatches(a, b) ==
    {k \in 2..Len(a) : a[k] # b[k] /\ a[k] # "-" /\ b[k] # "-"}
\* positions at which neither call is missing
BothCalled(a, b) == {k \in 2..Len(a) : a[k] # "-" /\ b[k] # "-"}

SameScaffoldReturned ==
    pc = "returned" /\ cm_a[1][1] = cm_b[1][1]

\* C1 (as amended): for two rows of one scaffold check_markers returns BREAK
\* iff the number of positions where the calls differ and neither is missing,
\* divided by the number of ALL genotype positions of a (missing ones
\* included), exceeds maxdiff; otherwise OK (equality is OK).  On BREAK the
\* triple is (scaffold, position of a, position of b).
C1_BreakIffFractionOfAllPositions ==
    SameScaffoldReturned =>
        LET exceeds == Cardinality(Mismatches(cm_a, cm_b)) * cm_maxdiff[2]
                         > (Len(cm_a) - 1) * cm_maxdiff[1]
        IN  /\ cm_ret[1] = (IF exceeds THEN BREAK ELSE OK)
            /\ cm_ret[2] = (IF exceeds
                            THEN <<cm_a[1][1], cm_a[1][2], cm_b[1][2]>>
                            ELSE None)

\* C1 witness: a BREAK returned for two rows with a missing call, two
\* mismatches in three positions and maxdiff 1/2
C1_Witness ==
    /\ SameScaffoldReturned
    /\ cm_ret[1] = BREAK
    /\ BothCalled(cm_a, cm_b) # 2..Len(cm_a)
    /\ Cardinality(Mismatches(cm_a, cm_b)) = 2
    /\ cm_maxdiff = <<1, 2>>

\* C1 (as stated): the fraction is taken over the positions where neither call
\* is missing, i.e. missing positions are left out of the total as well.
C1_Original_FractionOfCalledPositions ==
    SameScaffoldReturned =>
        LET exceeds == Cardinality(Mismatches(cm_a, cm_b)) * cm_maxdiff[2]
                         > Cardinality(BothCalled(cm_a, cm_b)) * cm_maxdiff[1]
        IN  /\ cm_ret[1] = (IF exceeds THEN BREAK ELSE OK)
            /\ cm_ret[2] = (IF exceeds
                            THEN <<cm_a[1][1], cm_a[1][2], cm_b[1][2]>>
                            ELSE None)

(***************************************************************************)
(* Claims about mapbreaks (SpecMapbreaks)                                  *)
(***************************************************************************)
\* the k-th input marker has a left and a right neighbour in the input and
\* both comparisons are BREAK
IsSingleton(k) ==
    /\ 1 < k /\ k < Len(mb_data)
    /\ check_markers(mb_data[k - 1], mb_data[k], mb_diff)[1] = BREAK
    /\ check_markers(mb_data[k], mb_data[k + 1], mb_diff)[1] = BREAK

\* C3: no marker whose left and right comparisons (in input order) are both
\* BREAK is in the retained sequence good.
C3_SingletonsNotRetained ==
    \A k \in 1..Len(mb_data) : IsSingleton(k) => mb_data[k] \notin Range(good)

\* C3 witness: a finished run whose input had a singleton next to a retained
\* marker
C3_Witness ==
    /\ pc = "done"
    /\ \E k \in 1..Len(mb_data) : IsSingleton(k)
    /\ nsingletons >= 1
    /\ good # <<>>

\* what C9 says is retained: the input without its singletons
C9_Retained == SelectSeq(mb_data, LAMBDA r : ~IsSingleton(r[1][2]))

RECURSIVE C9_Breaks(_, _)
C9_Breaks(s, k) ==
    IF k >= Len(s) THEN <<>>
    ELSE LET r == check_markers(s[k], s[k + 1], mb_diff)
         IN  (IF r[1] = BREAK THEN <<r[2]>> ELSE <<>>) \o C9_Breaks(s, k + 1)

\* C9 (as stated): the retained sequence is the input, in order, without
\* exactly its singletons (first and last marker retained), and the output is
\* one breakpoint per consecutive retained pair classified BREAK.
C9_RetainedIsInputMinusSingletons ==
    pc = "done" =>
        /\ good = C9_Retained
        /\ mb_out = C9_Breaks(C9_Retained, 1)

(***************************************************************************)
(* Claims about merge_ranges (SpecMergeRanges)                             *)
(***************************************************************************)
\* the seqids named by the accns of the group
GroupSeqids == {mr_beds[k].accn[1] : k \in 1..Len(mr_beds)}
NegRecords == {k \in 1..Len(mr_beds) : mr_beds[k].strand = "-"}
OtherRecords == {k \in 1..Len(mr_beds) : mr_beds[k].strand # "-"}

SingleSeqidReturned ==
    pc = "returned" /\ mr_beds # <<>> /\ Cardinality(GroupSeqids) = 1

\* C2 (as amended): the strand of a single-seqid group is '-' when the
\* records of strand '-' outnumber the others and '+' otherwise; when the two
\* counts are equal the strand is '+'.
C2_MajorityStrandTiesPositive ==
    SingleSeqidReturned =>
        /\ mr_ret # None
        /\ mr_ret[4] = (IF Cardinality(NegRecords) > Cardinality(OtherRecords)
                        THEN "-" ELSE "+")

\* C2 witness: a tie between the two strands, resolved to '+'
C2_Witness ==
    /\ SingleSeqidReturned
    /\ Cardinality(NegRecords) = Cardinality(OtherRecords)
    /\ mr_ret[4] = "+"

\* C2 (as stated): '-' when negative outnumber positive, '+' when positive
\* outnumber negative, and '-' on a tie.
C2_Original_TiesNegative ==
    SingleSeqidReturned =>
        /\ mr_ret # None
        /\ mr_ret[4] = (IF Cardinality(NegRecords) >= Cardinality(OtherRecords)
                        THEN "-" ELSE "+")

\* C6 (as amended): for a non-empty group of one seqid merge_ranges returns
\* that seqid, the least start and the greatest end of the group's parsed
\* ranges; for a group of one record, that record's own start and end, and
\* the strand '-' when the record's strand is '-' and '+' for any other
\* strand of the record ('+', '.' or none).
C6_MergedBounds ==
    SingleSeqidReturned =>
        /\ mr_ret # None
        /\ GroupSeqids = {mr_ret[1]}
        /\ \E k \in 1..Len(mr_beds) : mr_beds[k].accn[2] = mr_ret[2]
        /\ \A k \in 1..Len(mr_beds) : mr_ret[2] <= mr_beds[k].accn[2]
        /\ \E k \in 1..Len(mr_beds) : mr_beds[k].accn[3] = mr_ret[3]
        /\ \A k \in 1..Len(mr_beds) : mr_ret[3] >= mr_beds[k].accn[3]
        /\ (Len(mr_beds) = 1 =>
                mr_ret = <<mr_beds[1].accn[1], mr_beds[1].accn[2],
                           mr_beds[1].accn[3],
                           IF mr_beds[1].strand = "-" THEN "-" ELSE "+">>)

\* C6 (as stated): for a group of one record merge_ranges returns that
\* record's own start, end and strand.
C6_Original_OwnStrand ==
    SingleSeqidReturned =>
        /\ mr_ret # None
        /\ GroupSeqids = {mr_ret[1]}
        /\ \E k \in 1..Len(mr_beds) : mr_beds[k].accn[2] = mr_ret[2]
        /\ \A k \in 1..Len(mr_beds) : mr_ret[2] <= mr_beds[k].accn[2]
        /\ \E k \in 1..Len(mr_beds) : mr_beds[k].accn[3] = mr_ret[3]
        /\ \A k \in 1..Len(mr_beds) : mr_ret[3] >= mr_beds[k].accn[3]
        /\ (Len(mr_beds) = 1 =>
                mr_ret = <<mr_beds[1].accn[1], mr_beds[1].accn[2],
                           mr_beds[1].accn[3], mr_beds[1].strand>>)

\* C6 witness: a group whose least start and greatest end come from
\* different records, neither of them the first, with an unstranded record
C6_Witness ==
    /\ SingleSeqidReturned
    /\ Len(mr_beds) = 3
    /\ mr_ret[2] < mr_beds[1].accn[2]
    /\ mr_ret[3] > mr_beds[1].accn[3]
    /\ mr_ret[2] = mr_beds[2].accn[2]
    /\ mr_ret[3] = mr_beds[3].accn[3]
    /\ mr_beds[1].strand = "."
    /\ mr_ret[4] = "+"

\* C7: for a group with more than one distinct seqid merge_ranges returns
\* no result and logs an error.
C7_MultiSeqidNoResult ==
    (pc = "returned" /\ Cardinality(GroupSeqids) > 1) =>
        /\ mr_ret = None
        /\ Len(mr_log) = 1

\* C7 witness: a returned call on a group of two seqids
C7_Witness ==
    /\ pc = "returned"
    /\ Cardinality(GroupSeqids) = 2
    /\ mr_ret = None
    /\ mr_log # <<>>

(***************************************************************************)
(* Claims about prepare (SpecPrepare)                                      *)
(***************************************************************************)
\* the groups of consecutive records of uniqbed naming one seqid
RECURSIVE C5_Groups(_)
C5_Groups(k) ==
    IF k > Len(uniqbed) THEN <<>>
    ELSE LET j == CHOOSE m \in k..Len(uniqbed) :
                    /\ \A n \in k..m : uniqbed[n].accn[1] = uniqbed[k].accn[1]
                    /\ (m = Len(uniqbed)
                          \/ uniqbed[m + 1].accn[1] # uniqbed[k].accn[1])
         IN  <<SubSeq(uniqbed, k, j)>> \o C5_Groups(j + 1)

\* C5: the interval written for a merged interval (start, end) of a sequence
\* of length size has start = max(start - 10000, 0) and
\* end = min(end + 10000, size): never below 0, never above size.
C5_FlankClipped ==
    \A n \in 1..Len(bed_fw) :
        LET m == merge_ranges(C5_Groups(1)[n])
            size == sizes[m[1]]
            w == bed_fw[n]
        IN  /\ w[1] = m[1]
            /\ w[2] = (IF m[2] - 10000 > 0 THEN m[2] - 10000 ELSE 0)
            /\ w[3] = (IF m[3] + 10000 < size THEN m[3] + 10000 ELSE size)
            /\ w[2] >= 0
            /\ w[3] <= size
            /\ tpf_fw[n + 1][1] = w

\* C5 witness: a finished run that clipped a start to 0, clipped an end to
\* the sequence length and also wrote an unclipped start
C5_Witness ==
    /\ pc = "done"
    /\ \E n \in 1..Len(bed_fw) : bed_fw[n][2] = 0
    /\ \E n \in 1..Len(bed_fw) : bed_fw[n][3] = sizes[bed_fw[n][1]]
    /\ \E n \in 1..Len(bed_fw) : bed_fw[n][2] > 0

(***************************************************************************)
(* Claims about refine (SpecRefine)                                        *)
(***************************************************************************)
C8_Size(h) == int(h[Len(h)])

\* the rows of a region whose size is the greatest of the region
C8_Largest(hits) ==
    {k \in 1..Len(hits) :
        \A m \in 1..Len(hits) : C8_Size(hits[m]) <= C8_Size(hits[k])}

\* the regions without and with an overlapping gap, in input order
C8_NoGapRegions == SelectSeq(rf_in, LAMBDA r : r[2] = <<>>)
C8_GapRegions == SelectSeq(rf_in, LAMBDA r : r[2] # <<>>)

\* C8 (as amended): every region goes to exactly one output: the no-gap file
\* when its only row reports no overlapping gap, otherwise the largest-gaps
\* file, as the one row of greatest size; among rows of equal greatest size
\* the row written is the greatest in the column-by-column text order of the
\* rows, whatever its place in the input.
C8_LargestGapByTextOrder ==
    pc \in {"rf_merge", "done"} =>
        /\ Len(nogapsfw) + Len(largestgapsfw) = Len(rf_in)
        /\ nogapsfw = [n \in 1..Len(C8_NoGapRegions) |->
                          RegionList[C8_NoGapRegions[n][1]]]
        /\ Len(largestgapsfw) = Len(C8_GapRegions)
        /\ \A n \in 1..Len(C8_GapRegions) :
              LET hits == C8_GapRegions[n][2]
              IN  \E k \in C8_Largest(hits) :
                    /\ largestgapsfw[n] = hits[k]
                    /\ \A m \in C8_Largest(hits) :
                          m # k => ListLess(hits[m], hits[k])

\* C8 witness: a finished run with a region without gap and a region whose
\* two largest gaps tie, the first of them written
C8_Witness ==
    /\ pc = "done"
    /\ nogapsfw # <<>>
    /\ \E n \in 1..Len(C8_GapRegions) :
          LET hits == C8_GapRegions[n][2]
          IN  /\ Cardinality(C8_Largest(hits)) = 2
              /\ largestgapsfw[n] = hits[1]

\* C8 (as stated): among rows of equal greatest size the row written is the
\* one that comes last in input order.
C8_Original_LastOnTies ==
    pc \in {"rf_merge", "done"} =>
        /\ Len(nogapsfw) + Len(largestgapsfw) = Len(rf_in)
        /\ nogapsfw = [n \in 1..Len(C8_NoGapRegions) |->
                          RegionList[C8_NoGapRegions[n][1]]]
        /\ Len(largestgapsfw) = Len(C8_GapRegions)
        /\ \A n \in 1..Len(C8_GapRegions) :
              LET hits == C8_GapRegions[n][2]
              IN  largestgapsfw[n] = hits[SetMax(C8_Largest(hits))]

(***************************************************************************)
(* Claims about certificate (SpecCertificate)                              *)
(***************************************************************************)
\* the (component, direction) pairs of the non-gap components, in the order
\* in which certificate processes them; the n-th line written belongs to the
\* n-th pair
RECURSIVE CertSlots(_)
CertSlots(k) ==
    IF k > Len(tpf) THEN <<>>
    ELSE (IF tpf[k].is_gap THEN <<>> ELSE <<<<k, 1>>, <<k, 2>>>>)
         \o CertSlots(k + 1)

SlotNeighbour(n) ==
    getNorthSouthClone(tpf, CertSlots(1)[n][1])[CertSlots(1)[n][2]]
SlotKey(n) ==
    <<Tags[CertSlots(1)[n][2]], tpf[CertSlots(1)[n][1]].component_id,
      SlotNeighbour(n).component_id>>
NeighbourIsClone(n) == SlotNeighbour(n) # NoClone /\ ~SlotNeighbour(n).is_gap

\* C4: when the neighbour is a clone and the key (direction, current id,
\* neighbour id) is in the certificate file that existed at the start of the
\* run, the line written for that direction is the stored line and overlap()
\* is not called for the pair; overlap() is called only for absent keys.
C4_StoredLinesReused ==
    /\ \A n \in 1..Len(fw) :
          (NeighbourIsClone(n) /\ SlotKey(n) \in certificatefile)
              => fw[n] = <<"stored", SlotKey(n)>>
    /\ \A n \in 1..Len(ct_overlaps) : ct_overlaps[n] \notin certificatefile

\* C4 witness: a run that wrote a stored line and also called overlap()
C4_Witness ==
    /\ pc = "done"
    /\ \E n \in 1..Len(fw) :
          /\ NeighbourIsClone(n)
          /\ SlotKey(n) \in certificatefile
          /\ fw[n] = <<"stored", SlotKey(n)>>
    /\ ct_overlaps # <<>>

\* the neighbour phase the n-th line should carry by C10
C10_ExpectedPhase(n) ==
    IF ~NeighbourIsClone(n) THEN "0"
    ELSE IF SlotNeighbour(n).component_id[1] = "Scaffold" THEN "2" ELSE "1"

\* C10 (as stated): every non-gap component gets exactly two lines, North
\* then South; the neighbour phase of a newly computed line is that of the
\* line's own neighbour (0 for a telomere or a gap, 2 for a backbone clone,
\* 1 for a patch clone); it is always defined.
C10_NeighbourPhaseIsOwn ==
    /\ pc # "crashed"
    /\ \A n \in 1..Len(fw) :
          fw[n][1] # "stored" =>
              /\ fw[n][1] = Tags[CertSlots(1)[n][2]]
              /\ fw[n][4] = C10_ExpectedPhase(n)
    /\ (pc = "done" => Len(fw) = Len(CertSlots(1)))

\* C10, second failing case: a telomere line written after another
\* direction carries that direction's neighbour phase
C10_TelomerePhaseZero ==
    \A n \in 1..Len(fw) :
        (fw[n][1] # "stored" /\ fw[n][6][1] = "telomere") => fw[n][4] = "0"

====
